---------------------------- MODULE Spec2Model ----------------------------
(***************************************************************************)
(* Model of the outfit recommendation pipeline of                          *)
(* backend/app/ai/recommendations.py (class OutfitRecommendationEngine).   *)
(*                                                                         *)
(* Conventions                                                             *)
(*  - Scores are kept in hundredths: 0.6 is 60, 0.05 is 5, 1.0 is 100.     *)
(*    Every score of the code is 0.5 or 0.6 plus a number of +0.1 steps,   *)
(*    so two scores are equal as floats iff they are equal in hundredths.  *)
(*  - Python None is the string NoneValue; str(None) is "None".            *)
(*  - A function that may raise returns [raised, value].                   *)
(*  - An Optional[Dict] result is a sequence of length 0 (None) or 1.      *)
(*  - item.metadata is [kind, level]: kind "level" is a dict carrying an   *)
(*    integer formality_level, "none" is no usable dict (or a dict without *)
(*    the key), "bad" is a dict whose formality_level is not a number.     *)
(***************************************************************************)
EXTENDS Integers, Sequences, FiniteSets, TLC

VARIABLES
    pc,                      \* position in generate_outfit_recommendations / unit driver
    db_items,                \* clothing_items rows of the user, in query order
    mood, occasion, weather, \* request context
    num_recommendations,     \* requested count N
    user_clothes,            \* local user_clothes (line 83)
    user_preferences,        \* local user_preferences (line 95)
    attempt,                 \* number of loop iterations started (line 207)
    recommendations,         \* local recommendations (lines 99-125, 204-230)
    unique_recommendations,  \* local unique_recommendations (line 128)
    scored_recommendations,  \* local scored_recommendations (line 131)
    result,                  \* the returned list
    raised,                  \* TRUE iff an exception escaped to the caller
    path,                    \* which return statement produced the result
    emergency_calls,         \* calls of _create_emergency_recommendation on the normal path
    occasion_filtered,       \* unit driver: result of _filter_by_occasion
    mood_filtered,           \* unit driver: result of _filter_by_mood
    weather_filtered,        \* unit driver: result of _filter_by_weather
    categorized,             \* unit driver: local categorized_items (line 280)
    built_outfit,            \* unit driver: result of _build_complete_outfit (line 288)
    arg_color1, arg_color2,  \* unit driver: arguments of the ColorAnalyzer methods
    arg_harmony_type,        \* unit driver: argument of find_matching_colors
    matched_colors,          \* unit driver: result of find_matching_colors
    pair_score,              \* unit driver: result of _calculate_color_pair_harmony
    clock,                   \* environment: int(datetime.now().timestamp()), in seconds
    outfit_ids,              \* environment: the outfit_id of each rec of recommendations
    attempt_faults           \* environment: the attempts whose construction raised

vars == <<pc, db_items, mood, occasion, weather, num_recommendations,
          user_clothes, user_preferences, attempt, recommendations,
          unique_recommendations, scored_recommendations, result, raised, path,
          emergency_calls, occasion_filtered, mood_filtered, weather_filtered,
          categorized, built_outfit, arg_color1, arg_color2, arg_harmony_type,
          matched_colors, pair_score, clock, outfit_ids, attempt_faults>>

\* The variables of the assembler driver and of the ColorAnalyzer driver
assembler_vars == <<categorized, built_outfit>>
color_vars == <<arg_color1, arg_color2, arg_harmony_type, matched_colors, pair_score>>

\* The variables of the loop run in its environment (clock, random numbers, faults)
environment_vars == <<clock, outfit_ids, attempt_faults>>

-----------------------------------------------------------------------------
(* Bounds of the model *)

MaxItems == 3
MaxN == 2
MaxFilterLen == 3
MaxCands == 3
MaxAssemblerLen == 5

-----------------------------------------------------------------------------
(* Python values *)

NoneValue == "<None>"

Truthy(s) == s # NoneValue /\ s # ""

\* str.lower() on the strings of the model: the only strings with upper-case
\* letters are "Black" and "Cold".
Lower(s) ==
    CASE s = "Black" -> "black"
      [] s = "Cold"  -> "cold"
      [] OTHER       -> s

\* str(x) of a column value
Str(s) == IF s = NoneValue THEN "None" ELSE s

Min(a, b) == IF a <= b THEN a ELSE b

Abs(n) == IF n < 0 THEN -n ELSE n

\* items[:n] for n >= 0
Take(s, n) == SubSeq(s, 1, Min(n, Len(s)))

\* The elements of a sequence
Range(s) == {s[i] : i \in 1..Len(s)}

-----------------------------------------------------------------------------
(* Configuration tables of __init__ *)

mood_style_mapping ==
    [confident    |-> [colors |-> {"red", "black", "navy"},      formality |-> 3],
     relaxed      |-> [colors |-> {"blue", "green", "gray"},     formality |-> 1],
     creative     |-> [colors |-> {"purple", "orange", "yellow"}, formality |-> 2],
     professional |-> [colors |-> {"black", "navy", "gray"},     formality |-> 4],
     romantic     |-> [colors |-> {"pink", "red", "white"},      formality |-> 2],
     adventurous  |-> [colors |-> {"green", "brown", "orange"},  formality |-> 1]]

occasion_requirements ==
    [work    |-> [formality_min |-> 3, colors |-> {"navy", "black", "gray", "white"}],
     casual  |-> [formality_min |-> 1, colors |-> {"blue", "green", "red", "yellow"}],
     date    |-> [formality_min |-> 2, colors |-> {"black", "red", "navy", "white"}],
     party   |-> [formality_min |-> 3, colors |-> {"black", "red", "gold", "silver"}],
     workout |-> [formality_min |-> 1, colors |-> {"black", "gray", "blue", "green"}],
     formal  |-> [formality_min |-> 4, colors |-> {"black", "navy", "gray", "white"}]]

\* A key that a condition's dict does not have is the empty set here: the code
\* tests "<key> in adjustments and <value> in adjustments[<key>]".
weather_adjustments ==
    [hot   |-> [avoid_categories |-> {"coat", "sweater"}, prefer |-> {"shorts", "tank_top"},
                prefer_categories |-> {}, avoid |-> {}, neutral |-> FALSE],
     cold  |-> [avoid_categories |-> {}, prefer |-> {},
                prefer_categories |-> {"coat", "sweater"}, avoid |-> {"shorts", "tank_top"},
                neutral |-> FALSE],
     rainy |-> [avoid_categories |-> {}, prefer |-> {},
                prefer_categories |-> {"jacket", "boots"}, avoid |-> {"white", "suede"},
                neutral |-> FALSE],
     mild  |-> [avoid_categories |-> {}, prefer |-> {},
                prefer_categories |-> {}, avoid |-> {}, neutral |-> TRUE]]

essential_categories ==
    [tops      |-> {"shirt", "blouse", "t-shirt", "tank_top", "sweater", "hoodie", "top"},
     bottoms   |-> {"pants", "jeans", "shorts", "skirt", "dress", "trousers"},
     outerwear |-> {"jacket", "coat", "blazer", "cardigan"},
     footwear  |-> {"shoes", "sneakers", "boots", "sandals", "heels"}]

\* self.ai_models after __init__: _load_ai_models is a placeholder, the dict stays empty
ai_models == {}

-----------------------------------------------------------------------------
(* Filters (lines 393-491) *)

\* formality as computed at lines 407-409 and 442-444, for usable metadata
Formality(item) ==
    IF item.metadata.kind = "level" THEN item.metadata.level ELSE 2

\* The formality test with ">" in place of ">="
OccasionKeepsAbove(item, requirements) ==
    IF item.metadata.kind = "bad"
    THEN TRUE
    ELSE \/ Formality(item) > requirements.formality_min
         \/ Truthy(item.color) /\ Lower(item.color) \in requirements.colors

\* Lines 405-419: the body of the occasion loop says "append". A formality_level
\* that is no number makes the comparison raise, and the handler appends.
OccasionKeeps(item, requirements) ==
    IF item.metadata.kind = "bad"
    THEN TRUE
    ELSE \/ Formality(item) >= requirements.formality_min
         \/ Truthy(item.color) /\ Lower(item.color) \in requirements.colors

\* "filtered if filtered else items" (lines 422, 454, 491), and the same pattern
\* of the caller (lines 252-272)
OrElse(filtered, items) == IF filtered # <<>> THEN filtered ELSE items

FilterByOccasionNoFallback(items, occ) ==
    IF occ \notin DOMAIN occasion_requirements
    THEN items
    ELSE LET Keep(item) == OccasionKeeps(item, occasion_requirements[occ])
         IN  SelectSeq(items, Keep)

FilterByOccasion(items, occ) ==
    IF occ \notin DOMAIN occasion_requirements
    THEN items
    ELSE LET Keep(item) == OccasionKeeps(item, occasion_requirements[occ])
         IN  OrElse(SelectSeq(items, Keep), items)

\* The formality test asking for the mood's formality itself
MoodKeepsSameFormality(item, mood_style) ==
    IF Truthy(item.color) /\ Lower(item.color) \in mood_style.colors
    THEN TRUE
    ELSE IF item.metadata.kind = "bad"
         THEN TRUE
         ELSE Formality(item) = mood_style.formality

\* Lines 436-451: the body of the mood loop says "append".
MoodKeeps(item, mood_style) ==
    IF Truthy(item.color) /\ Lower(item.color) \in mood_style.colors
    THEN TRUE
    ELSE IF item.metadata.kind = "bad"
         THEN TRUE
         ELSE Abs(Formality(item) - mood_style.formality) <= 1

FilterByMood(items, md) ==
    IF md \notin DOMAIN mood_style_mapping
    THEN items
    ELSE LET Keep(item) == MoodKeeps(item, mood_style_mapping[md])
         IN  OrElse(SelectSeq(items, Keep), items)

\* Line 458: weather.get('condition', 'mild').lower() if weather else 'mild'.
\* kind "dict" is a dict with a string condition, "empty" is {} or None or a dict
\* without the key, "malformed" is a value on which the expression raises (a dict
\* whose condition is no string, a non-empty non-dict).
WeatherCondition(w) ==
    CASE w.kind = "dict"  -> [raised |-> FALSE, value |-> Lower(w.condition)]
      [] w.kind = "empty" -> [raised |-> FALSE, value |-> "mild"]
      [] OTHER            -> [raised |-> TRUE,  value |-> ""]

\* Lines 474-478: the item is skipped
WeatherAvoids(item, adjustments) ==
    \/ Truthy(item.category) /\ Lower(item.category) \in adjustments.avoid_categories
    \/ Truthy(item.color) /\ Lower(item.color) \in adjustments.avoid

\* Line 481: the item is inserted at the front
WeatherPrefers(item, adjustments) ==
    Truthy(item.category) /\ Lower(item.category) \in adjustments.prefer_categories

\* Lines 470-488: the loop, from item i on, with the list built so far
RECURSIVE WeatherLoop(_, _, _, _)
WeatherLoop(items, i, adjustments, filtered) ==
    IF i > Len(items)
    THEN filtered
    ELSE LET item == items[i]
         IN  IF WeatherAvoids(item, adjustments)
             THEN WeatherLoop(items, i + 1, adjustments, filtered)
             ELSE IF WeatherPrefers(item, adjustments)
                  THEN WeatherLoop(items, i + 1, adjustments, <<item>> \o filtered)
                  ELSE WeatherLoop(items, i + 1, adjustments, Append(filtered, item))

\* Lines 461-491, given the condition of line 458
FilterByCondition(items, cond) ==
    IF cond.raised
    THEN [raised |-> TRUE, value |-> <<>>]
    ELSE IF cond.value \notin DOMAIN weather_adjustments
         THEN [raised |-> FALSE, value |-> items]
         ELSE IF weather_adjustments[cond.value].neutral
              THEN [raised |-> FALSE, value |-> items]
              ELSE [raised |-> FALSE,
                    value  |-> OrElse(WeatherLoop(items, 1,
                                          weather_adjustments[cond.value], <<>>),
                                      items)]

FilterByWeather(items, w) == FilterByCondition(items, WeatherCondition(w))

-----------------------------------------------------------------------------
(* Assembler (lines 494-545) *)

\* Lines 500-511: the slot of one item
SlotOf(item) ==
    LET category == IF Truthy(item.category) THEN Lower(item.category) ELSE "accessories"
    IN  CASE category \in essential_categories.tops      -> "tops"
          [] category \in essential_categories.bottoms   -> "bottoms"
          [] category \in essential_categories.outerwear -> "outerwear"
          [] category \in essential_categories.footwear  -> "footwear"
          [] OTHER                                       -> "accessories"

CategorizeItems(items) ==
    [slot \in {"tops", "bottoms", "outerwear", "footwear", "accessories"} |->
        LET InSlot(item) == SlotOf(item) = slot
        IN  SelectSeq(items, InSlot)]

\* "outfit.extend(<slot list>[:2])" in the place of the append
AppendFirstTwo(outfit, slot_items, condition) ==
    IF slot_items # <<>> /\ condition THEN outfit \o Take(slot_items, 2) ELSE outfit

\* "if <slot list>: outfit.append(<slot list>[0])" under a further condition
AppendFirst(outfit, slot_items, condition) ==
    IF slot_items # <<>> /\ condition THEN Append(outfit, slot_items[1]) ELSE outfit

\* Line 529
HasDress(outfit) == \E i \in 1..Len(outfit) : Lower(Str(outfit[i].category)) = "dress"

\* Lines 528-531
AppendBottom(outfit, bottoms) == AppendFirst(outfit, bottoms, ~HasDress(outfit))

\* An accessory added while the outfit has at most 4 items
AppendAccessoryUpToFive(outfit, accessories) ==
    AppendFirst(outfit, accessories, Len(outfit) <= 4)

\* Lines 542-543
AppendAccessory(outfit, accessories) == AppendFirst(outfit, accessories, Len(outfit) < 4)

\* Outerwear added whatever the occasion
BuildCompleteOutfitAnyOccasion(categorized_items, md, occ) ==
    AppendAccessory(
        AppendFirst(
            AppendFirst(
                AppendBottom(
                    AppendFirst(<<>>, categorized_items["tops"], TRUE),
                    categorized_items["bottoms"]),
                categorized_items["outerwear"], TRUE),
            categorized_items["footwear"], TRUE),
        categorized_items["accessories"])

BuildCompleteOutfit(categorized_items, md, occ) ==
    AppendAccessory(
        AppendFirst(
            AppendFirst(
                AppendBottom(
                    AppendFirst(<<>>, categorized_items["tops"], TRUE),
                    categorized_items["bottoms"]),
                categorized_items["outerwear"], occ \in {"work", "formal", "date"}),
            categorized_items["footwear"], TRUE),
        categorized_items["accessories"])

-----------------------------------------------------------------------------
(* Candidate construction (lines 232-390, 547-599) *)

\* Lines 573-581, given the number of neutral colors
CoordinateByCount(colors, neutral_count) ==
    IF neutral_count = Len(colors)
    THEN TRUE
    ELSE Len(colors) - neutral_count <= 1

\* Coordination decided by the first color of the list alone
ColorsCoordinateFirstNeutral(colors) ==
    IF colors = <<>>
    THEN TRUE
    ELSE Lower(colors[1]) \in {"black", "white", "gray", "grey", "navy", "beige", "brown"}

\* Lines 568-581
ColorsCoordinate(colors) ==
    IF colors = <<>>
    THEN TRUE
    ELSE CoordinateByCount(colors,
             Cardinality({i \in 1..Len(colors) :
                 Lower(colors[i]) \in {"black", "white", "gray", "grey", "navy",
                                       "beige", "brown"}}))

\* The bonus of the third category left out
ConfidenceBonusNoThird(categories, colors) ==
    (IF Cardinality(categories) >= 2 THEN 10 ELSE 0)
        + (IF ColorsCoordinate(colors) THEN 10 ELSE 0)

\* Lines 555-564: the sum of the bonuses, in hundredths
ConfidenceBonus(categories, colors) ==
    (IF Cardinality(categories) >= 2 THEN 10 ELSE 0)
        + (IF Cardinality(categories) >= 3 THEN 10 ELSE 0)
        + (IF ColorsCoordinate(colors) THEN 10 ELSE 0)

\* Lines 547-566, in hundredths
CalculateConfidenceScore(outfit_items, md, occ) ==
    IF outfit_items = <<>>
    THEN 0
    ELSE Min(60 + ConfidenceBonus(
                      {outfit_items[i].category : i \in 1..Len(outfit_items)},
                      [i \in 1..Len(outfit_items) |-> outfit_items[i].color]),
             100)

\* Lines 593-599
AssessColorHarmony(outfit_items) ==
    IF outfit_items = <<>>
    THEN TRUE
    ELSE LET HasColor(item) == item.color # ""
             LowerColor(item) == Lower(item.color)
             ColorsOf(kept) == [i \in 1..Len(kept) |-> LowerColor(kept[i])]
         IN  ColorsCoordinate(ColorsOf(SelectSeq(outfit_items, HasColor)))

\* Lines 301-319: the dict of one selected item. formality_level is the raw
\* metadata value: the level, 2 by default, or 0 standing for a non-number.
ItemDict(item) ==
    [item_id  |-> item.item_id,
     category |-> Str(item.category),
     color    |-> Str(item.color),
     formality_level |-> CASE item.metadata.kind = "level" -> item.metadata.level
                           [] item.metadata.kind = "none"  -> 2
                           [] OTHER                        -> 0]

\* Lines 368-374: the dict of one item of the emergency recommendation
EmergencyItemDict(item) ==
    [item_id  |-> item.item_id,
     category |-> Str(item.category),
     color    |-> Str(item.color),
     formality_level |-> 2]

\* Lines 267-276: the weather stage, its fallback, and the last fallback
WeatherStage(weather_f, current_items, clothing_items) ==
    IF weather_f.raised
    THEN [raised |-> TRUE, value |-> <<>>]
    ELSE [raised |-> FALSE,
          value  |-> OrElse(OrElse(weather_f.value, current_items), clothing_items)]

\* Lines 259-276: the mood stage and what follows, from the items the occasion
\* stage left
MoodStage(current_items, md, w, clothing_items) ==
    WeatherStage(FilterByWeather(OrElse(FilterByMood(current_items, md), current_items), w),
                 OrElse(FilterByMood(current_items, md), current_items),
                 clothing_items)

\* Lines 247-276: the three filters with the caller's own fallbacks
ApplyFilters(clothing_items, md, occ, w) ==
    MoodStage(OrElse(FilterByOccasion(clothing_items, occ), clothing_items),
              md, w, clothing_items)

\* The fallback taking every item of the list
SelectOutfitItemsAll(built, current_items) ==
    IF built = <<>> THEN current_items ELSE built

\* Lines 288-293: the assembled outfit, or the first items of the filtered list
SelectOutfitItems(built, current_items) ==
    IF built = <<>>
    THEN Take(current_items, Min(3, Len(current_items)))
    ELSE built

\* Lines 298-326
FormatItems(outfit_items) == [i \in 1..Len(outfit_items) |-> ItemDict(outfit_items[i])]

\* Lines 328-348. final_score is -1 and attempt_number 0 while the key is absent;
\* recommendation_method is "" until the caller sets it.
OutfitDict(selected_items, md, occ) ==
    IF selected_items = <<>>
    THEN <<>>
    ELSE << [items |-> selected_items,
             mood |-> md,
             occasion |-> occ,
             confidence_score |-> CalculateConfidenceScore(selected_items, md, occ),
             color_harmony |-> AssessColorHarmony(selected_items),
             recommendation_method |-> "",
             attempt_number |-> 0,
             final_score |-> -1] >>

\* Lines 278-348, from the filtered items
OutfitFromItems(current_items, md, occ) ==
    OutfitDict(
        FormatItems(
            SelectOutfitItems(
                BuildCompleteOutfit(CategorizeItems(current_items), md, occ),
                current_items)),
        md, occ)

\* Lines 239-355: an exception inside the try block gives None
OutfitFromFiltered(current, md, occ) ==
    IF current.raised THEN <<>> ELSE OutfitFromItems(current.value, md, occ)

\* Lines 232-355
CreateOutfitRecommendation(clothing_items, md, occ, w, prefs) ==
    IF clothing_items = <<>>
    THEN <<>>
    ELSE OutfitFromFiltered(ApplyFilters(clothing_items, md, occ, w), md, occ)

\* Lines 376-386
EmergencyDict(selected_items, md, occ) ==
    [items |-> selected_items,
     mood |-> md,
     occasion |-> occ,
     confidence_score |-> 50,
     color_harmony |-> TRUE,
     recommendation_method |-> "emergency_fallback",
     attempt_number |-> 0,
     final_score |-> -1]

\* Lines 366-374
EmergencyItems(first) == [i \in 1..Len(first) |-> EmergencyItemDict(first[i])]

\* The slice [3:] in place of [:3]
CreateEmergencyRecommendationTail(clothing_items, md, occ) ==
    IF clothing_items = <<>>
    THEN <<>>
    ELSE << EmergencyDict(EmergencyItems(SubSeq(clothing_items, 4, Len(clothing_items))),
                          md, occ) >>

\* The slice [:2] in place of [:3]
CreateEmergencyRecommendationFirstTwo(clothing_items, md, occ) ==
    IF clothing_items = <<>>
    THEN <<>>
    ELSE << EmergencyDict(EmergencyItems(Take(clothing_items, 2)), md, occ) >>

\* Lines 357-390
CreateEmergencyRecommendation(clothing_items, md, occ) ==
    IF clothing_items = <<>>
    THEN <<>>
    ELSE << EmergencyDict(EmergencyItems(Take(clothing_items, 3)), md, occ) >>

-----------------------------------------------------------------------------
(* Deduplication and scoring (lines 601-639) *)

\* sorted(ids): insertion of one id into a sorted list. Item ids are single
\* digits here, so the order of their str() is the order of the numbers.
RECURSIVE SortedInsert(_, _)
SortedInsert(sorted, x) ==
    IF sorted = <<>>
    THEN <<x>>
    ELSE IF x < Head(sorted)
         THEN <<x>> \o sorted
         ELSE <<Head(sorted)>> \o SortedInsert(Tail(sorted), x)

RECURSIVE SortedIds(_)
SortedIds(ids) ==
    IF ids = <<>> THEN <<>> ELSE SortedInsert(SortedIds(Tail(ids)), Head(ids))

\* Lines 629-630: combo_signature
UnsortedSignature(rec) == [i \in 1..Len(rec.items) |-> rec.items[i].item_id]

ComboSignature(rec) ==
    SortedIds([i \in 1..Len(rec.items) |-> rec.items[i].item_id])

\* Lines 627-637: the loop from rec i on
RECURSIVE DedupLoop(_, _, _, _)
DedupLoop(recs, i, seen_combinations, unique_recs) ==
    IF i > Len(recs)
    THEN unique_recs
    ELSE LET combo_signature == ComboSignature(recs[i])
         IN  IF combo_signature \notin seen_combinations
             THEN DedupLoop(recs, i + 1, seen_combinations \cup {combo_signature},
                            Append(unique_recs, recs[i]))
             ELSE DedupLoop(recs, i + 1, seen_combinations, unique_recs)

DeduplicateRecommendations(recs) == DedupLoop(recs, 1, {}, <<>>)

\* Lines 604-618: final_score of one rec, in hundredths. kind "absent" is a dict
\* without preferred_colors (or an empty dict), "colors" carries a list of
\* strings, "malformed" carries a value that supports no "in" (null, a number):
\* line 611 raises on it.
\* Lines 607-612: the preference bonus
PreferenceBonus(rec, prefs) ==
    IF /\ prefs.kind = "colors"
       /\ \E i \in 1..Len(rec.items) : Lower(rec.items[i].color) \in prefs.preferred_colors
    THEN 10
    ELSE 0

\* The bonus of the model-based method as large as the bonus of a preferred color
MethodBonusTen(rec) == IF rec.recommendation_method = "ai_enhanced" THEN 10 ELSE 0

\* Lines 615-616: the bonus of the model-based method
MethodBonus(rec) == IF rec.recommendation_method = "ai_enhanced" THEN 5 ELSE 0

\* The bonus counted once per item of a preferred color, and no cap
FinalScorePerItemBonus(rec, prefs) ==
    rec.confidence_score
        + 10 * Cardinality({i \in 1..Len(rec.items) :
                               prefs.kind = "colors"
                               /\ Lower(rec.items[i].color) \in prefs.preferred_colors})
        + MethodBonus(rec)

\* Lines 604-618: final_score of one rec, in hundredths. kind "absent" is a dict
\* without preferred_colors (or an empty dict), "colors" carries a list of
\* strings, "malformed" carries a value that supports no "in" (null, a number):
\* line 611 raises on it.
FinalScore(rec, prefs) ==
    Min(rec.confidence_score + PreferenceBonus(rec, prefs) + MethodBonus(rec), 100)

\* sorted(..., key=final_score, reverse=True): a stable sort, equal keys keep
\* their input order. Insertion after every element whose key is >= the new one.
RECURSIVE InsertDescending(_, _)
InsertDescending(sorted, rec) ==
    IF sorted = <<>>
    THEN <<rec>>
    ELSE IF Head(sorted).final_score >= rec.final_score
         THEN <<Head(sorted)>> \o InsertDescending(Tail(sorted), rec)
         ELSE <<rec>> \o sorted

RECURSIVE SortDescending(_, _)
SortDescending(recs, i) ==
    IF i = 0 THEN <<>> ELSE InsertDescending(SortDescending(recs, i - 1), recs[i])

\* An ascending stable sort, reversed
RECURSIVE InsertAscending(_, _)
InsertAscending(sorted, rec) ==
    IF sorted = <<>>
    THEN <<rec>>
    ELSE IF Head(sorted).final_score <= rec.final_score
         THEN <<Head(sorted)>> \o InsertAscending(Tail(sorted), rec)
         ELSE <<rec>> \o sorted

RECURSIVE SortAscending(_, _)
SortAscending(recs, i) ==
    IF i = 0 THEN <<>> ELSE InsertAscending(SortAscending(recs, i - 1), recs[i])

Reverse(s) == [i \in 1..Len(s) |-> s[Len(s) + 1 - i]]

SortedByScoreReversedAscending(recs) == Reverse(SortAscending(recs, Len(recs)))

\* Line 620
SortedByScore(recs) == SortDescending(recs, Len(recs))

\* Lines 601-620
ScoreRecommendations(recs, prefs, md, occ) ==
    IF prefs.kind = "malformed" /\ \E i \in 1..Len(recs) : recs[i].items # <<>>
    THEN [raised |-> TRUE, value |-> <<>>]
    ELSE [raised |-> FALSE,
          value  |-> SortedByScore([i \in 1..Len(recs) |->
                        [recs[i] EXCEPT !.final_score = FinalScore(recs[i], prefs)]])]

-----------------------------------------------------------------------------
(* External collaborators (lines 159-190) *)

\* Lines 159-178: the rows, or [] when the query raises
GetUserClothing(rows, query_ok) == IF query_ok THEN rows ELSE <<>>

\* Lines 180-190: the stored dict when it is truthy, {} otherwise or on failure
GetUserPreferences(stored, query_ok) ==
    IF query_ok /\ stored.kind # "absent"
    THEN stored
    ELSE [kind |-> "absent", preferred_colors |-> {}]

-----------------------------------------------------------------------------
(* Input domains *)

Level(n) == [kind |-> "level", level |-> n]
NoMetadata == [kind |-> "none", level |-> 0]
BadMetadata == [kind |-> "bad", level |-> 0]

\* The clothing items of the model, by item_id
ItemCatalogue ==
    << [item_id |-> 1, category |-> "shirt",   color |-> "Black", metadata |-> Level(3)],
       [item_id |-> 2, category |-> "sweater", color |-> "red",   metadata |-> NoMetadata],
       [item_id |-> 3, category |-> "jeans",   color |-> "blue",  metadata |-> NoMetadata],
       [item_id |-> 4, category |-> "coat",    color |-> "white", metadata |-> Level(2)],
       [item_id |-> 5, category |-> "scarf",   color |-> "green", metadata |-> Level(5)],
       [item_id |-> 6, category |-> "boots",   color |-> "brown", metadata |-> BadMetadata],
       [item_id |-> 7, category |-> "shorts",  color |-> NoneValue, metadata |-> Level(1)],
       [item_id |-> 8, category |-> NoneValue, color |-> "suede", metadata |-> Level(4)] >>

WardrobeIds == {1, 2, 3, 4, 5}
FilterIds == DOMAIN ItemCatalogue

\* The lists of at most n distinct items with ids in ids
ItemLists(ids, n) ==
    LET idseqs == UNION {[1..k -> ids] : k \in 0..n}
        distinct == {q \in idseqs : \A i, j \in DOMAIN q : i # j => q[i] # q[j]}
    IN  {[i \in DOMAIN q |-> ItemCatalogue[q[i]]] : q \in distinct}

Dict(cond) == [kind |-> "dict", condition |-> cond]
EmptyWeather == [kind |-> "empty", condition |-> ""]
MalformedWeather == [kind |-> "malformed", condition |-> ""]

NoPreferences == [kind |-> "absent", preferred_colors |-> {}]
TestUserPreferences == [kind |-> "colors", preferred_colors |-> {"blue", "black", "white"}]
MalformedPreferences == [kind |-> "malformed", preferred_colors |-> {}]

PipelineMoods == {"professional", "sleepy"}
PipelineOccasions == {"date", "casual"}
PipelineWeathers == {EmptyWeather, Dict("Cold"), MalformedWeather}
PipelinePreferences == {NoPreferences, TestUserPreferences, MalformedPreferences}

-----------------------------------------------------------------------------
(* generate_outfit_recommendations (lines 67-157) as a state machine *)

\* random.shuffle of a copy: every order of the list
Shuffles(items) ==
    {[i \in 1..Len(items) |-> items[p[i]]] : p \in Permutations(1..Len(items))}

NoWeatherResult == [raised |-> FALSE, value |-> <<>>]

\* The drivers of the assembler and of the ColorAnalyzer have not run
AssemblerIdle ==
    /\ categorized = CategorizeItems(<<>>)
    /\ built_outfit = <<>>

\* _calculate_color_pair_harmony has not been called
NoPairScore == [raised |-> FALSE, value |-> -1]

\* The loop has not been run in its environment
EnvironmentIdle ==
    /\ clock = 0
    /\ outfit_ids = <<>>
    /\ attempt_faults = {}

ColorIdle ==
    /\ arg_color1 = ""
    /\ arg_color2 = ""
    /\ arg_harmony_type = ""
    /\ matched_colors = <<>>
    /\ pair_score = NoPairScore

Init ==
    /\ pc = "fetch_items"
    /\ db_items \in ItemLists(WardrobeIds, MaxItems)
    /\ mood \in PipelineMoods
    /\ occasion \in PipelineOccasions
    /\ weather \in PipelineWeathers
    /\ num_recommendations \in 0..MaxN
    /\ user_clothes = <<>>
    /\ user_preferences = NoPreferences
    /\ attempt = 0
    /\ recommendations = <<>>
    /\ unique_recommendations = <<>>
    /\ scored_recommendations = <<>>
    /\ result = <<>>
    /\ raised = FALSE
    /\ path = "none"
    /\ emergency_calls = 0
    /\ occasion_filtered = <<>>
    /\ mood_filtered = <<>>
    /\ weather_filtered = NoWeatherResult
    /\ AssemblerIdle
    /\ EnvironmentIdle
    /\ ColorIdle

\* Line 86 without its early return
NoItemsNever(fetched) == FALSE

\* Line 86: "if not user_clothes"
NoItems(fetched) == fetched = <<>>

\* Lines 83-88
FetchItems ==
    /\ pc = "fetch_items"
    /\ \E query_ok \in BOOLEAN :
          LET fetched == GetUserClothing(db_items, query_ok)
          IN  /\ user_clothes' = fetched
              /\ IF NoItems(fetched)
                 THEN /\ result' = <<>>
                      /\ path' = "no_items"
                      /\ pc' = "done"
                 ELSE /\ pc' = "fetch_preferences"
                      /\ UNCHANGED <<result, path>>
    /\ UNCHANGED <<environment_vars, assembler_vars, color_vars, db_items, mood, occasion, weather,
                   num_recommendations,
                   user_preferences, attempt, recommendations, unique_recommendations,
                   scored_recommendations, raised, emergency_calls,
                   occasion_filtered, mood_filtered, weather_filtered>>

\* Line 95: the stored style_preferences are read once, here
FetchPreferences ==
    /\ pc = "fetch_preferences"
    /\ \E stored \in PipelinePreferences, query_ok \in BOOLEAN :
          user_preferences' = GetUserPreferences(stored, query_ok)
    /\ pc' = "assemble"
    /\ UNCHANGED <<environment_vars, assembler_vars, color_vars, db_items, mood, occasion, weather,
                   num_recommendations,
                   user_clothes, attempt, recommendations, unique_recommendations,
                   scored_recommendations, result, raised, path, emergency_calls,
                   occasion_filtered, mood_filtered, weather_filtered>>

\* Line 207: range(num_recommendations * 2)
AttemptLimitThree(n) == 3 * n

AttemptLimit(n) == n * 2

\* Lines 224-225: the break
LoopBreaks(recs, n) == Len(recs) >= n

\* An iteration without outfit leaving the loop
AfterAttemptStopOnFailure(recs, outfit, n, wanted) ==
    IF outfit # <<>>
    THEN [recommendations |-> Append(recs, [outfit[1] EXCEPT
                                               !.recommendation_method = "rule_based",
                                               !.attempt_number = n]),
          pc |-> IF LoopBreaks(Append(recs, outfit[1]), wanted)
                 THEN "merge" ELSE "assemble"]
    ELSE [recommendations |-> recs, pc |-> "merge"]

\* Lines 218-227: what one iteration does with the outfit of attempt number n
AfterAttempt(recs, outfit, n, wanted) ==
    IF outfit # <<>>
    THEN [recommendations |-> Append(recs, [outfit[1] EXCEPT
                                               !.recommendation_method = "rule_based",
                                               !.attempt_number = n]),
          pc |-> IF LoopBreaks(Append(recs, outfit[1]), wanted)
                 THEN "merge" ELSE "assemble"]
    ELSE [recommendations |-> recs, pc |-> "assemble"]

\* random.shuffle applied to the list of the caller itself
ListAfterShuffleInPlace(fetched, shuffled_clothes) == shuffled_clothes

\* Lines 211-212: "shuffled_clothes = user_clothes.copy()", then the shuffle of
\* the copy: the list of the caller after the two lines
ListAfterShuffle(fetched, shuffled_clothes) == fetched

\* Lines 207-227: one iteration of the loop
Attempt ==
    /\ pc = "assemble"
    /\ attempt < AttemptLimit(num_recommendations)
    /\ attempt' = attempt + 1
    /\ \E shuffled_clothes \in Shuffles(user_clothes) :
          LET after == AfterAttempt(recommendations,
                           CreateOutfitRecommendation(shuffled_clothes, mood, occasion,
                                                      weather, user_preferences),
                           attempt + 1, num_recommendations)
          IN  /\ recommendations' = after.recommendations
              /\ pc' = after.pc
              /\ user_clothes' = ListAfterShuffle(user_clothes, shuffled_clothes)
    /\ UNCHANGED <<environment_vars, assembler_vars, color_vars, db_items, mood, occasion, weather,
                   num_recommendations,
                   user_preferences, unique_recommendations,
                   scored_recommendations, result, raised, path, emergency_calls,
                   occasion_filtered, mood_filtered, weather_filtered>>

\* Line 207: the range is exhausted
LoopExit ==
    /\ pc = "assemble"
    /\ attempt >= AttemptLimit(num_recommendations)
    /\ pc' = "merge"
    /\ UNCHANGED <<environment_vars, assembler_vars, color_vars, db_items, mood, occasion, weather,
                   num_recommendations,
                   user_clothes, user_preferences, attempt, recommendations,
                   unique_recommendations, scored_recommendations, result, raised, path,
                   emergency_calls, occasion_filtered, mood_filtered, weather_filtered>>

\* Lines 107-125: the model-based candidates (none: ai_models is empty, and the
\* generator is a placeholder returning []), then the emergency fallback
Fallback ==
    /\ pc = "merge"
    /\ IF recommendations = <<>>
       THEN /\ recommendations' =
                   CreateEmergencyRecommendation(user_clothes, mood, occasion)
            /\ emergency_calls' = emergency_calls + 1
       ELSE UNCHANGED <<recommendations, emergency_calls>>
    /\ pc' = "dedup"
    /\ UNCHANGED <<environment_vars, assembler_vars, color_vars, db_items, mood, occasion, weather,
                   num_recommendations,
                   user_clothes, user_preferences, attempt, unique_recommendations,
                   scored_recommendations, result, raised, path,
                   occasion_filtered, mood_filtered, weather_filtered>>

\* Line 128
Deduplicate ==
    /\ pc = "dedup"
    /\ unique_recommendations' = DeduplicateRecommendations(recommendations)
    /\ pc' = "score"
    /\ UNCHANGED <<environment_vars, assembler_vars, color_vars, db_items, mood, occasion, weather,
                   num_recommendations,
                   user_clothes, user_preferences, attempt, recommendations,
                   scored_recommendations, result, raised, path, emergency_calls,
                   occasion_filtered, mood_filtered, weather_filtered>>

\* Lines 131-133; an exception leaves the try block for the handler of line 144
Score ==
    /\ pc = "score"
    /\ LET scored == ScoreRecommendations(unique_recommendations, user_preferences,
                                          mood, occasion)
       IN  IF scored.raised
           THEN /\ pc' = "except"
                /\ UNCHANGED scored_recommendations
           ELSE /\ pc' = "truncate"
                /\ scored_recommendations' = scored.value
    /\ UNCHANGED <<environment_vars, assembler_vars, color_vars, db_items, mood, occasion, weather,
                   num_recommendations,
                   user_clothes, user_preferences, attempt, recommendations,
                   unique_recommendations, result, raised, path, emergency_calls,
                   occasion_filtered, mood_filtered, weather_filtered>>

\* Line 135: scored_recommendations[:num_recommendations]
FinalRecommendations(scored, n) == Take(scored, n)

\* Lines 135-142
Truncate ==
    /\ pc = "truncate"
    /\ result' = FinalRecommendations(scored_recommendations, num_recommendations)
    /\ path' = "ranked"
    /\ pc' = "done"
    /\ UNCHANGED <<environment_vars, assembler_vars, color_vars, db_items, mood, occasion, weather,
                   num_recommendations,
                   user_clothes, user_preferences, attempt, recommendations,
                   unique_recommendations, scored_recommendations, raised,
                   emergency_calls, occasion_filtered, mood_filtered, weather_filtered>>

\* The handler with a bare "raise" at its end
HandleFaultReraise(refetched, md, occ) == [raised |-> TRUE, value |-> <<>>]

\* Lines 144-157: the handler of the outer try, given the items fetched again
HandleFault(refetched, md, occ) ==
    IF refetched # <<>>
    THEN [raised |-> FALSE, value |-> CreateEmergencyRecommendation(refetched, md, occ)]
    ELSE [raised |-> FALSE, value |-> <<>>]

Except ==
    /\ pc = "except"
    /\ \E query_ok \in BOOLEAN :
          LET handled == HandleFault(GetUserClothing(db_items, query_ok), mood, occasion)
          IN  /\ result' = handled.value
              /\ raised' = handled.raised
              /\ emergency_calls' = emergency_calls + (IF query_ok THEN 1 ELSE 0)
    /\ path' = "fault"
    /\ pc' = "done"
    /\ UNCHANGED <<environment_vars, assembler_vars, color_vars, db_items, mood, occasion, weather,
                   num_recommendations,
                   user_clothes, user_preferences, attempt, recommendations,
                   unique_recommendations, scored_recommendations,
                   occasion_filtered, mood_filtered, weather_filtered>>

Next ==
    \/ FetchItems
    \/ FetchPreferences
    \/ Attempt
    \/ LoopExit
    \/ Fallback
    \/ Deduplicate
    \/ Score
    \/ Truncate
    \/ Except

Spec == Init /\ [][Next]_vars

-----------------------------------------------------------------------------
(* The three filters applied on their own to a list of items *)

UnitMoods == DOMAIN mood_style_mapping \cup {"sleepy"}
UnitOccasions == DOMAIN occasion_requirements \cup {"gala"}
UnitWeathers ==
    {Dict(c) : c \in {"hot", "cold", "rainy", "mild", "Cold", "snowy"}}
        \cup {EmptyWeather, MalformedWeather}

FilterInit ==
    /\ db_items = <<>>
    /\ user_clothes \in ItemLists(FilterIds, MaxFilterLen)
    /\ \/ pc = "unit_occasion" /\ occasion \in UnitOccasions
          /\ mood = "sleepy" /\ weather = EmptyWeather
       \/ pc = "unit_mood" /\ mood \in UnitMoods
          /\ occasion = "gala" /\ weather = EmptyWeather
       \/ pc = "unit_weather" /\ weather \in UnitWeathers
          /\ occasion = "gala" /\ mood = "sleepy"
    /\ num_recommendations = 0
    /\ user_preferences = NoPreferences
    /\ attempt = 0
    /\ recommendations = <<>>
    /\ unique_recommendations = <<>>
    /\ scored_recommendations = <<>>
    /\ result = <<>>
    /\ raised = FALSE
    /\ path = "none"
    /\ emergency_calls = 0
    /\ occasion_filtered = <<>>
    /\ mood_filtered = <<>>
    /\ weather_filtered = NoWeatherResult
    /\ AssemblerIdle
    /\ EnvironmentIdle
    /\ ColorIdle

UnitFilterByOccasion ==
    /\ pc = "unit_occasion"
    /\ occasion_filtered' = FilterByOccasion(user_clothes, occasion)
    /\ pc' = "occasion_done"
    /\ UNCHANGED <<environment_vars, assembler_vars, color_vars, db_items, mood, occasion, weather,
                   num_recommendations,
                   user_clothes, user_preferences, attempt, recommendations,
                   unique_recommendations, scored_recommendations, result, raised, path,
                   emergency_calls, mood_filtered, weather_filtered>>

UnitFilterByMood ==
    /\ pc = "unit_mood"
    /\ mood_filtered' = FilterByMood(user_clothes, mood)
    /\ pc' = "mood_done"
    /\ UNCHANGED <<environment_vars, assembler_vars, color_vars, db_items, mood, occasion, weather,
                   num_recommendations,
                   user_clothes, user_preferences, attempt, recommendations,
                   unique_recommendations, scored_recommendations, result, raised, path,
                   emergency_calls, occasion_filtered, weather_filtered>>

UnitFilterByWeather ==
    /\ pc = "unit_weather"
    /\ weather_filtered' = FilterByWeather(user_clothes, weather)
    /\ pc' = "weather_done"
    /\ UNCHANGED <<environment_vars, assembler_vars, color_vars, db_items, mood, occasion, weather,
                   num_recommendations,
                   user_clothes, user_preferences, attempt, recommendations,
                   unique_recommendations, scored_recommendations, result, raised, path,
                   emergency_calls, occasion_filtered, mood_filtered>>

FilterNext == UnitFilterByOccasion \/ UnitFilterByMood \/ UnitFilterByWeather

FilterSpec == FilterInit /\ [][FilterNext]_vars

-----------------------------------------------------------------------------
(* Deduplication, scoring and truncation applied to a list of candidates *)

\* A well-formed candidate over the items ids, in the order of ids, scored as
\* line 333 scores it
Candidate(ids, method) ==
    LET item_dicts == [i \in 1..Len(ids) |-> ItemDict(ItemCatalogue[ids[i]])]
    IN  [items |-> item_dicts,
         mood |-> "sleepy",
         occasion |-> "casual",
         confidence_score |-> CalculateConfidenceScore(item_dicts, "sleepy", "casual"),
         color_harmony |-> AssessColorHarmony(item_dicts),
         recommendation_method |-> method,
         attempt_number |-> 0,
         final_score |-> -1]

CandidatePool ==
    {Candidate(ids, "rule_based") :
        ids \in {<<1, 3>>, <<3, 1>>, <<2, 3>>, <<1>>, <<1, 3, 4>>}}
        \cup {Candidate(<<1, 3, 4>>, "ai_enhanced")}

\* The lists of at most n candidates of the pool; attempt_number is the position
CandidateLists(n) ==
    {[i \in DOMAIN q |-> [q[i] EXCEPT !.attempt_number = i]] :
        q \in UNION {[1..k -> CandidatePool] : k \in 0..n}}

RankInit ==
    /\ pc = "dedup"
    /\ db_items = <<ItemCatalogue[1], ItemCatalogue[3]>>
    /\ user_clothes = db_items
    /\ mood = "sleepy"
    /\ occasion = "casual"
    /\ weather = EmptyWeather
    /\ num_recommendations \in 0..MaxN
    /\ user_preferences \in PipelinePreferences
    /\ attempt = 0
    /\ recommendations \in CandidateLists(MaxCands)
    /\ unique_recommendations = <<>>
    /\ scored_recommendations = <<>>
    /\ result = <<>>
    /\ raised = FALSE
    /\ path = "none"
    /\ emergency_calls = 0
    /\ occasion_filtered = <<>>
    /\ mood_filtered = <<>>
    /\ weather_filtered = NoWeatherResult
    /\ AssemblerIdle
    /\ EnvironmentIdle
    /\ ColorIdle

RankNext == Deduplicate \/ Score \/ Truncate \/ Except

RankSpec == RankInit /\ [][RankNext]_vars

\* The pipeline, and the ranking stages on any list of candidates
ScoringSpec == (Init \/ RankInit) /\ [][Next]_vars

\* The pipeline, and the three filters on their own
FrameSpec == (Init \/ FilterInit) /\ [][Next \/ FilterNext]_vars

-----------------------------------------------------------------------------
(* The generation loop in its environment: the clock and the random number  *)
(* of line 336, and exceptions raised inside the try of lines 239-355       *)

\* Two of the values of random.randint(1000, 9999)
RandomNumbers == {1000, 9999}

\* The seconds the clock shows during one request
ClockSeconds == {0, 1}

\* Line 336: f"rec_{int(datetime.now().timestamp())}_{random.randint(1000, 9999)}"
OutfitId(second, number) == <<"rec", second, number>>

\* Lines 349-355: an exception raised inside the try is logged, None is returned
OutfitUnderFault(outfit, fault) == IF fault THEN <<>> ELSE outfit

\* Lines 223 and 336: the ids of the collected recs after the iteration
IdsAfterAttempt(ids, outfit, second, number) ==
    IF outfit # <<>> THEN Append(ids, OutfitId(second, number)) ELSE ids

EnvironmentInit ==
    /\ pc = "assemble"
    /\ db_items = <<ItemCatalogue[1], ItemCatalogue[2], ItemCatalogue[3]>>
    /\ user_clothes = db_items
    /\ mood = "sleepy"
    /\ occasion = "casual"
    /\ weather = EmptyWeather
    /\ num_recommendations \in 1..MaxN
    /\ user_preferences \in {NoPreferences, TestUserPreferences}
    /\ attempt = 0
    /\ recommendations = <<>>
    /\ unique_recommendations = <<>>
    /\ scored_recommendations = <<>>
    /\ result = <<>>
    /\ raised = FALSE
    /\ path = "none"
    /\ emergency_calls = 0
    /\ occasion_filtered = <<>>
    /\ mood_filtered = <<>>
    /\ weather_filtered = NoWeatherResult
    /\ AssemblerIdle
    /\ EnvironmentIdle
    /\ ColorIdle

\* Lines 207-227 with the environment of the call of line 214: the time that
\* passes, the number drawn, and whether the construction raises
AttemptInEnvironment ==
    /\ pc = "assemble"
    /\ attempt < AttemptLimit(num_recommendations)
    /\ attempt' = attempt + 1
    /\ \E shuffled_clothes \in Shuffles(user_clothes), fault \in BOOLEAN,
          number \in RandomNumbers, second \in {clock, clock + 1} \cap ClockSeconds :
          LET outfit == OutfitUnderFault(
                            CreateOutfitRecommendation(shuffled_clothes, mood, occasion,
                                                       weather, user_preferences),
                            fault)
              after == AfterAttempt(recommendations, outfit, attempt + 1,
                                    num_recommendations)
          IN  /\ recommendations' = after.recommendations
              /\ pc' = after.pc
              /\ user_clothes' = ListAfterShuffle(user_clothes, shuffled_clothes)
              /\ clock' = second
              /\ outfit_ids' = IdsAfterAttempt(outfit_ids, outfit, second, number)
              /\ attempt_faults' = IF fault THEN attempt_faults \cup {attempt + 1}
                                            ELSE attempt_faults
    /\ UNCHANGED <<assembler_vars, color_vars, db_items, mood, occasion, weather,
                   num_recommendations,
                   user_preferences, unique_recommendations,
                   scored_recommendations, result, raised, path, emergency_calls,
                   occasion_filtered, mood_filtered, weather_filtered>>

EnvironmentNext ==
    \/ AttemptInEnvironment
    \/ LoopExit
    \/ Fallback
    \/ Deduplicate
    \/ Score
    \/ Truncate

EnvironmentSpec == EnvironmentInit /\ [][EnvironmentNext]_vars

-----------------------------------------------------------------------------
(* Driver of one assembly attempt: the filters, _categorize_items and
   _build_complete_outfit on any list of items (lines 246-348) *)

\* The clothing items of the driver: one item per slot, a second bottom, an
\* item without category, and three more outerwear items
AssemblerCatalogue ==
    << [item_id |-> 11, category |-> "shirt", color |-> "black", metadata |-> Level(3)],
       [item_id |-> 12, category |-> "pants", color |-> "black", metadata |-> Level(3)],
       [item_id |-> 13, category |-> "shoes", color |-> "black", metadata |-> Level(2)],
       [item_id |-> 14, category |-> "coat",  color |-> "white", metadata |-> Level(3)],
       [item_id |-> 15, category |-> "dress", color |-> "blue",  metadata |-> NoMetadata],
       [item_id |-> 16, category |-> "scarf", color |-> "green", metadata |-> Level(5)],
       [item_id |-> 17, category |-> NoneValue, color |-> "gray", metadata |-> Level(1)],
       [item_id |-> 18, category |-> "jacket",   color |-> "navy", metadata |-> Level(2)],
       [item_id |-> 19, category |-> "blazer",   color |-> "gray", metadata |-> Level(4)],
       [item_id |-> 20, category |-> "cardigan", color |-> "red",  metadata |-> BadMetadata] >>

\* Positions in AssemblerCatalogue: the items of the general lists, and the
\* items of the lists that hold outerwear and at most a dress
GeneralIds == 1..7
OuterwearIds == {4, 5, 8, 9, 10}

\* The lists of at most n distinct items of the driver taken among ids
AssemblerItemLists(ids, n) ==
    LET idseqs == UNION {[1..k -> ids] : k \in 0..n}
        distinct == {q \in idseqs : \A i, j \in DOMAIN q : i # j => q[i] # q[j]}
    IN  {[i \in DOMAIN q |-> AssemblerCatalogue[q[i]]] : q \in distinct}

AssemblerMoods == {"professional", "sleepy"}
AssemblerOccasions == {"work", "party", "casual"}
AssemblerWeathers == {Dict("mild"), Dict("cold")}

AssemblerInit ==
    /\ pc = "unit_outfit"
    /\ db_items = <<>>
    /\ user_clothes \in AssemblerItemLists(GeneralIds, MaxAssemblerLen)
                          \cup AssemblerItemLists(OuterwearIds, MaxAssemblerLen)
    /\ mood \in AssemblerMoods
    /\ occasion \in AssemblerOccasions
    /\ weather \in AssemblerWeathers
    /\ num_recommendations = 0
    /\ user_preferences = NoPreferences
    /\ attempt = 0
    /\ recommendations = <<>>
    /\ unique_recommendations = <<>>
    /\ scored_recommendations = <<>>
    /\ result = <<>>
    /\ raised = FALSE
    /\ path = "none"
    /\ emergency_calls = 0
    /\ occasion_filtered = <<>>
    /\ mood_filtered = <<>>
    /\ weather_filtered = NoWeatherResult
    /\ AssemblerIdle
    /\ EnvironmentIdle
    /\ ColorIdle

\* _create_outfit_recommendation(user_clothes, mood, occasion, weather,
\* user_preferences): occasion_filtered and mood_filtered are the locals of
\* lines 251 and 260, weather_filtered is current_items of line 276,
\* recommendations the returned outfit
UnitCreateOutfit ==
    /\ pc = "unit_outfit"
    /\ occasion_filtered' = FilterByOccasion(user_clothes, occasion)
    /\ mood_filtered' = FilterByMood(OrElse(occasion_filtered', user_clothes), mood)
    /\ weather_filtered' = ApplyFilters(user_clothes, mood, occasion, weather)
    /\ categorized' = CategorizeItems(weather_filtered'.value)
    /\ built_outfit' = BuildCompleteOutfit(categorized', mood, occasion)
    /\ recommendations' = CreateOutfitRecommendation(user_clothes, mood, occasion,
                                                     weather, user_preferences)
    /\ pc' = "outfit_done"
    /\ UNCHANGED <<environment_vars, color_vars, db_items, mood, occasion, weather, num_recommendations,
                   user_clothes, user_preferences, attempt, unique_recommendations,
                   scored_recommendations, result, raised, path, emergency_calls>>

AssemblerNext == UnitCreateOutfit

AssemblerSpec == AssemblerInit /\ [][AssemblerNext]_vars

-----------------------------------------------------------------------------
(* ColorAnalyzer (backend/app/ai/color_analysis.py) *)

\* Lines 13-27: (hue, saturation, value) by color name
color_wheel ==
    [red    |-> <<0, 100, 100>>,
     orange |-> <<30, 100, 100>>,
     yellow |-> <<60, 100, 100>>,
     green  |-> <<120, 100, 100>>,
     blue   |-> <<240, 100, 100>>,
     purple |-> <<270, 100, 100>>,
     pink   |-> <<330, 100, 100>>,
     brown  |-> <<30, 100, 30>>,
     black  |-> <<0, 0, 0>>,
     white  |-> <<0, 0, 100>>,
     gray   |-> <<0, 0, 50>>,
     navy   |-> <<240, 100, 25>>,
     beige  |-> <<30, 30, 80>>]

\* The keys of color_wheel in insertion order: the order of .items()
color_names ==
    <<"red", "orange", "yellow", "green", "blue", "purple", "pink", "brown",
      "black", "white", "gray", "navy", "beige">>

\* self.color_wheel[color][0]
Hue(color_name) == color_wheel[color_name][1]

\* The complement taken modulo 180 in place of 360
ComplementaryColorsMod180(base_color) ==
    LET Matches(color_name) == Abs(Hue(color_name) - ((Hue(base_color) + 180) % 180)) < 30
    IN  SelectSeq(color_names, Matches)

\* Lines 107-118
ComplementaryColors(base_color) ==
    LET Matches(color_name) == Abs(Hue(color_name) - ((Hue(base_color) + 180) % 360)) < 30
    IN  SelectSeq(color_names, Matches)

\* Lines 120-129
AnalogousColors(base_color) ==
    LET Matches(color_name) ==
            Abs(Hue(color_name) - Hue(base_color)) < 60 /\ color_name # base_color
    IN  SelectSeq(color_names, Matches)

\* Lines 131-141
TriadicColors(base_color) ==
    LET Matches(color_name) ==
            \/ Abs(Hue(color_name) - ((Hue(base_color) + 120) % 360)) < 30
            \/ Abs(Hue(color_name) - ((Hue(base_color) + 240) % 360)) < 30
    IN  SelectSeq(color_names, Matches)

\* Lines 143-152
MonochromaticColors(base_color) ==
    LET Matches(color_name) == Abs(Hue(color_name) - Hue(base_color)) < 15
    IN  SelectSeq(color_names, Matches)

\* Lines 36-41: the keys of color_harmony_rules
color_harmony_rules == {"complementary", "analogous", "triadic", "monochromatic"}

\* Lines 88-105
FindMatchingColors(base_color, harmony_type) ==
    IF base_color \notin DOMAIN color_wheel
    THEN <<>>
    ELSE CASE harmony_type = "complementary" -> ComplementaryColors(base_color)
           [] harmony_type = "analogous"     -> AnalogousColors(base_color)
           [] harmony_type = "triadic"       -> TriadicColors(base_color)
           [] harmony_type = "monochromatic" -> MonochromaticColors(base_color)
           [] OTHER                          -> <<>>

\* The difference taken without abs()
HueDiffSigned(hue1, hue2) ==
    IF hue1 - hue2 > 180 THEN 360 - (hue1 - hue2) ELSE hue1 - hue2

\* Lines 176-178
HueDiff(hue1, hue2) ==
    IF Abs(hue1 - hue2) > 180 THEN 360 - Abs(hue1 - hue2) ELSE Abs(hue1 - hue2)

\* The three tests with "<=" in place of "<"
PairHarmonyOfDiffInclusive(hue_diff) ==
    CASE Abs(hue_diff - 180) <= 30 -> 90
      [] hue_diff <= 30            -> 80
      [] Abs(hue_diff - 120) <= 30 -> 70
      [] OTHER                     -> 50

\* Lines 181-188, in hundredths; the first test that holds decides
PairHarmonyOfDiff(hue_diff) ==
    IF Abs(hue_diff - 180) < 30
    THEN 90
    ELSE IF hue_diff < 30
         THEN 80
         ELSE IF Abs(hue_diff - 120) < 30
              THEN 70
              ELSE 50

\* Lines 171-188; a color that is no key of color_wheel raises KeyError
CalculateColorPairHarmony(color1, color2) ==
    IF color1 \notin DOMAIN color_wheel \/ color2 \notin DOMAIN color_wheel
    THEN [raised |-> TRUE, value |-> 0]
    ELSE [raised |-> FALSE, value |-> PairHarmonyOfDiff(HueDiff(Hue(color1), Hue(color2)))]

\* The color names of the driver: the keys of color_wheel and one unknown name
UnitColors == DOMAIN color_wheel \cup {"teal"}

\* The harmony types of the driver: the four rules and one unknown type
UnitHarmonyTypes == color_harmony_rules \cup {"split"}

ColorInit ==
    /\ \/ /\ pc = "unit_pair"
          /\ arg_color1 \in UnitColors
          /\ arg_color2 \in UnitColors
          /\ arg_harmony_type = ""
       \/ /\ pc = "unit_match"
          /\ arg_color1 \in UnitColors
          /\ arg_color2 = ""
          /\ arg_harmony_type \in UnitHarmonyTypes
    /\ matched_colors = <<>>
    /\ pair_score = NoPairScore
    /\ db_items = <<>>
    /\ user_clothes = <<>>
    /\ mood = "sleepy"
    /\ occasion = "gala"
    /\ weather = EmptyWeather
    /\ num_recommendations = 0
    /\ user_preferences = NoPreferences
    /\ attempt = 0
    /\ recommendations = <<>>
    /\ unique_recommendations = <<>>
    /\ scored_recommendations = <<>>
    /\ result = <<>>
    /\ raised = FALSE
    /\ path = "none"
    /\ emergency_calls = 0
    /\ occasion_filtered = <<>>
    /\ mood_filtered = <<>>
    /\ weather_filtered = NoWeatherResult
    /\ AssemblerIdle
    /\ EnvironmentIdle

pipeline_vars ==
    <<db_items, mood, occasion, weather, num_recommendations, user_clothes,
      user_preferences, attempt, recommendations, unique_recommendations,
      scored_recommendations, result, raised, path, emergency_calls,
      occasion_filtered, mood_filtered, weather_filtered>>

\* _calculate_color_pair_harmony(arg_color1, arg_color2)
UnitPairHarmony ==
    /\ pc = "unit_pair"
    /\ pair_score' = CalculateColorPairHarmony(arg_color1, arg_color2)
    /\ pc' = "pair_done"
    /\ UNCHANGED <<environment_vars, pipeline_vars, assembler_vars, arg_color1, arg_color2,
                   arg_harmony_type, matched_colors>>

\* find_matching_colors(arg_color1, arg_harmony_type)
UnitFindMatchingColors ==
    /\ pc = "unit_match"
    /\ matched_colors' = FindMatchingColors(arg_color1, arg_harmony_type)
    /\ pc' = "match_done"
    /\ UNCHANGED <<environment_vars, pipeline_vars, assembler_vars, arg_color1, arg_color2,
                   arg_harmony_type, pair_score>>

ColorNext == UnitPairHarmony \/ UnitFindMatchingColors

ColorSpec == ColorInit /\ [][ColorNext]_vars

-----------------------------------------------------------------------------
(* Properties *)

OccasionKeepsNone ==
    /\ occasion \in DOMAIN occasion_requirements
    /\ \A i \in 1..Len(user_clothes) :
          ~OccasionKeeps(user_clothes[i], occasion_requirements[occasion])

MoodKeepsNone ==
    /\ mood \in DOMAIN mood_style_mapping
    /\ \A i \in 1..Len(user_clothes) :
          ~MoodKeeps(user_clothes[i], mood_style_mapping[mood])

WeatherKeepsNone ==
    LET cond == WeatherCondition(weather)
    IN  /\ ~cond.raised
        /\ cond.value \in DOMAIN weather_adjustments
        /\ ~weather_adjustments[cond.value].neutral
        /\ \A i \in 1..Len(user_clothes) :
              WeatherAvoids(user_clothes[i], weather_adjustments[cond.value])

\* C1: each of the three filters, applied to a non-empty list, returns a
\* non-empty list, and returns its input unchanged whenever its criterion keeps
\* no item.
C1_FiltersFailSoft ==
    user_clothes # <<>> =>
        /\ pc = "occasion_done" =>
              /\ occasion_filtered # <<>>
              /\ OccasionKeepsNone => occasion_filtered = user_clothes
        /\ pc = "mood_done" =>
              /\ mood_filtered # <<>>
              /\ MoodKeepsNone => mood_filtered = user_clothes
        /\ (pc = "weather_done" /\ ~weather_filtered.raised) =>
              /\ weather_filtered.value # <<>>
              /\ WeatherKeepsNone => weather_filtered.value = user_clothes

C1_Witness ==
    /\ pc = "weather_done"
    /\ Len(user_clothes) >= 2
    /\ WeatherKeepsNone
    /\ weather_filtered.value = user_clothes

\* C2: with no items (an empty collection, or a failed fetch), the request
\* returns the empty list without raising, without any assembly attempt and
\* without the emergency fallback.
C2_NoItemsReturnsEmpty ==
    (pc # "fetch_items" /\ user_clothes = <<>>) =>
        /\ pc = "done"
        /\ path = "no_items"
        /\ result = <<>>
        /\ ~raised
        /\ attempt = 0
        /\ emergency_calls = 0
        /\ recommendations = <<>>

C2_Witness ==
    /\ pc = "done"
    /\ path = "no_items"
    /\ db_items # <<>>
    /\ num_recommendations > 0

\* C3: no exception escapes generate_outfit_recommendations; a finished request
\* has returned a list of candidates.
C3_NeverRaises ==
    /\ ~raised
    /\ pc = "done" =>
          /\ path \in {"no_items", "ranked", "fault"}
          /\ \A i \in 1..Len(result) :
                result[i].recommendation_method \in {"rule_based", "emergency_fallback"}

C3_Witness ==
    /\ pc = "done"
    /\ path = "fault"
    /\ Len(recommendations) = 2

\* C4: the returned list has exactly min(N, number of candidates left after
\* deduplication) entries.
C4_LengthIsMinOfNAndUnique ==
    pc = "done" =>
        Len(result) = Min(num_recommendations, Len(unique_recommendations))

\* The ids of the items of a candidate, as a set
ItemIdSet(rec) == {rec.items[i].item_id : i \in 1..Len(rec.items)}

NonIncreasing(recs) ==
    \A i, j \in 1..Len(recs) : i < j => recs[i].final_score >= recs[j].final_score

\* C5: the scored list, and the returned list, are in non-increasing order of
\* final_score, and candidates of equal final_score keep the order they had in
\* the deduplicated list.
C5_RankedDescendingStable ==
    /\ NonIncreasing(scored_recommendations)
    /\ NonIncreasing(result)
    /\ pc \in {"truncate", "done"} /\ path # "fault" =>
          /\ Len(scored_recommendations) = Len(unique_recommendations)
          /\ \A k \in 1..Len(unique_recommendations) :
                \E i \in 1..Len(scored_recommendations) :
                    scored_recommendations[i] =
                        [unique_recommendations[k] EXCEPT
                            !.final_score = scored_recommendations[i].final_score]
          /\ \A i, j \in 1..Len(scored_recommendations) :
                (i < j /\ scored_recommendations[i].final_score
                            = scored_recommendations[j].final_score)
                => scored_recommendations[i].attempt_number
                      < scored_recommendations[j].attempt_number

C5_Witness ==
    /\ pc = "done"
    /\ path = "ranked"
    /\ Len(scored_recommendations) = 3
    /\ Len(result) = 2
    /\ result[1].attempt_number = 3
    /\ result[1].final_score > result[2].final_score
    /\ scored_recommendations[2].final_score = scored_recommendations[3].final_score
    /\ scored_recommendations[2].attempt_number = 1

\* C6: the deduplicated list is a subsequence of its input, no two of its
\* candidates have the same set of item ids, and the candidate kept for a set of
\* item ids is the first of the input that has it, whatever the order of the
\* items inside the candidates.
C6_DeduplicationKeepsFirst ==
    pc \in {"score", "truncate", "except", "done"} =>
        /\ \A k \in 1..Len(unique_recommendations) :
              LET n == unique_recommendations[k].attempt_number
              IN  /\ n \in 1..Len(recommendations)
                  /\ unique_recommendations[k] = recommendations[n]
                  /\ \A j \in 1..(n - 1) :
                        ItemIdSet(recommendations[j]) # ItemIdSet(recommendations[n])
        /\ \A k, l \in 1..Len(unique_recommendations) :
              k < l =>
                  /\ unique_recommendations[k].attempt_number
                        < unique_recommendations[l].attempt_number
                  /\ ItemIdSet(unique_recommendations[k])
                        # ItemIdSet(unique_recommendations[l])
        /\ \A j \in 1..Len(recommendations) :
              \E k \in 1..Len(unique_recommendations) :
                  ItemIdSet(unique_recommendations[k]) = ItemIdSet(recommendations[j])

C6_Witness ==
    /\ pc = "score"
    /\ Len(recommendations) = 3
    /\ Len(unique_recommendations) = 2
    /\ recommendations[1].items # recommendations[3].items
    /\ ItemIdSet(recommendations[1]) = ItemIdSet(recommendations[3])

AllCandidates ==
    Range(recommendations) \cup Range(unique_recommendations)
        \cup Range(scored_recommendations) \cup Range(result)

\* C7: every confidence_score and every final_score lies in [0, 1] (0..100 in
\* hundredths); a candidate that has not been scored carries no final_score.
C7_ScoresInUnitInterval ==
    /\ \A rec \in AllCandidates :
          /\ rec.confidence_score \in 0..100
          /\ rec.final_score \in {-1} \cup 0..100
    /\ \A i \in 1..Len(scored_recommendations) :
          scored_recommendations[i].final_score \in 0..100

C7_Witness ==
    /\ pc = "done"
    /\ user_preferences.kind = "colors"
    /\ \E i \in 1..Len(result) :
          /\ result[i].recommendation_method = "ai_enhanced"
          /\ result[i].confidence_score = 90
          /\ result[i].final_score = 100

\* C8: every candidate of the returned list has at least one item.
C8_ReturnedOutfitsNonEmpty ==
    pc = "done" => \A i \in 1..Len(result) : Len(result[i].items) >= 1

C8_Witness ==
    /\ pc = "done"
    /\ path = "fault"
    /\ result # <<>>
    /\ Len(result[1].items) = 1

RuleBased(recs) ==
    LET IsRuleBased(rec) == rec.recommendation_method = "rule_based"
    IN  SelectSeq(recs, IsRuleBased)

\* C9: the loop makes at most 2*N attempts, is never at its head with N
\* candidates collected, never collects more than N, and is left only with N
\* candidates or after 2*N attempts.
C9_LoopBounded ==
    /\ attempt <= 2 * num_recommendations
    /\ Len(RuleBased(recommendations)) <= num_recommendations
    /\ Len(RuleBased(recommendations)) <= attempt
    /\ pc = "assemble" =>
          \/ Len(recommendations) < num_recommendations
          \/ attempt = 2 * num_recommendations
    /\ pc \in {"merge", "dedup", "score", "truncate", "except"} =>
          \/ Len(RuleBased(recommendations)) = num_recommendations
          \/ attempt = 2 * num_recommendations

C9_Witness ==
    /\ pc = "merge"
    /\ num_recommendations = 2
    /\ attempt = 4
    /\ recommendations = <<>>

\* The candidate the emergency fallback is to build from the fetched items
ExpectedEmergency ==
    [items |-> [i \in 1..Min(3, Len(db_items)) |->
                   [item_id  |-> db_items[i].item_id,
                    category |-> db_items[i].category,
                    color    |-> db_items[i].color,
                    formality_level |-> 2]],
     mood |-> mood,
     occasion |-> occasion,
     confidence_score |-> 50,
     color_harmony |-> TRUE,
     recommendation_method |-> "emergency_fallback",
     attempt_number |-> 0,
     final_score |-> -1]

\* C10: after the loop of a request with items, the candidates are the single
\* emergency candidate (first min(3, n) fetched items, confidence 0.5, tagged
\* emergency_fallback) if the loop produced none, and the fallback has not been
\* invoked otherwise.
C10_EmergencyFallbackOnlyWhenLoopEmpty ==
    (pc \in {"dedup", "score", "truncate", "except"} \/ (pc = "done" /\ path = "ranked")) =>
        /\ user_clothes = db_items
        /\ IF RuleBased(recommendations) = <<>>
           THEN /\ recommendations = <<ExpectedEmergency>>
                /\ emergency_calls = 1
           ELSE /\ emergency_calls = 0
                /\ recommendations = RuleBased(recommendations)

C10_Witness ==
    /\ pc = "done"
    /\ path = "ranked"
    /\ num_recommendations = 2
    /\ Len(db_items) = 3
    /\ result = <<[ExpectedEmergency EXCEPT !.final_score = 50]>>

\* The neutral colors, and the coordinate predicate as C11 states it: all
\* colors of the list are neutral, or at most one entry of the list is not
NeutralColors == {"black", "white", "gray", "grey", "navy", "beige", "brown"}

Coordinate(colors) ==
    \/ \A i \in 1..Len(colors) : Lower(colors[i]) \in NeutralColors
    \/ Cardinality({i \in 1..Len(colors) : Lower(colors[i]) \notin NeutralColors}) <= 1

DistinctCategories(dicts) == Cardinality({dicts[i].category : i \in 1..Len(dicts)})

ExpectedConfidence(dicts) ==
    Min(60 + (IF DistinctCategories(dicts) >= 2 THEN 10 ELSE 0)
           + (IF DistinctCategories(dicts) >= 3 THEN 10 ELSE 0)
           + (IF Coordinate([i \in 1..Len(dicts) |-> dicts[i].color]) THEN 10 ELSE 0),
        100)

\* A black top, a black bottom and black shoes, in any order, under mood
\* professional, occasion work and mild weather
BlackTopBottomShoes ==
    /\ Len(user_clothes) = 3
    /\ {SlotOf(user_clothes[i]) : i \in 1..3} = {"tops", "bottoms", "footwear"}
    /\ \A i \in 1..3 : Lower(user_clothes[i].color) = "black"
    /\ mood = "professional"
    /\ occasion = "work"
    /\ weather = Dict("mild")

C12_PairHarmonySymmetric ==
    /\ pc = "pair_done"
    /\ arg_color1 \in DOMAIN color_wheel
    /\ arg_color2 \in DOMAIN color_wheel
    => /\ ~pair_score.raised
       /\ pair_score = CalculateColorPairHarmony(arg_color2, arg_color1)

C12_Witness ==
    /\ pc = "pair_done"
    /\ arg_color1 = "green"
    /\ arg_color2 = "red"
    /\ pair_score = [raised |-> FALSE, value |-> 70]

\* The members of a list
Members(list) == {list[i] : i \in 1..Len(list)}

\* C13: for every color X of the color wheel, the complementary matches of X
\* do not contain X.
C13_ComplementaryExcludesBase ==
    /\ pc = "match_done"
    /\ arg_harmony_type = "complementary"
    /\ arg_color1 \in DOMAIN color_wheel
    => arg_color1 \notin Members(matched_colors)

C13_Witness ==
    /\ pc = "match_done"
    /\ arg_harmony_type = "complementary"
    /\ arg_color1 = "yellow"
    /\ matched_colors = <<"blue", "navy">>

\* The distance of two hues on the 360-degree wheel (0..180)
CircularDistance(hue1, hue2) == Min(Abs(hue1 - hue2), 360 - Abs(hue1 - hue2))

\* The pair of the driver is a scored pair of wheel colors
PairScored ==
    /\ pc = "pair_done"
    /\ arg_color1 \in DOMAIN color_wheel
    /\ arg_color2 \in DOMAIN color_wheel

ArgDistance == CircularDistance(Hue(arg_color1), Hue(arg_color2))

\* C18 as stated: with d the circular hue distance of the pair, the score is
\* 0.9 when d is in [150,180], 0.8 when d < 30, 0.7 when d is in [90,150]
\* (and not already 0.9), and 0.5 otherwise.
C18_HarmonyBandsClosed ==
    PairScored =>
        pair_score.value =
            (IF 150 <= ArgDistance /\ ArgDistance <= 180 THEN 90
             ELSE IF ArgDistance < 30 THEN 80
             ELSE IF 90 <= ArgDistance /\ ArgDistance <= 150 THEN 70
             ELSE 50)

\* C18 (amended): with d the circular hue distance of the pair, the score is
\* 0.9 when 150 < d <= 180, 0.8 when d < 30, 0.7 when 90 < d < 150, and 0.5
\* otherwise; in particular d = 150 and d = 90 score 0.5.
C18_HarmonyBandsOpen ==
    PairScored =>
        /\ ~pair_score.raised
        /\ pair_score.value =
              (IF 150 < ArgDistance /\ ArgDistance <= 180 THEN 90
               ELSE IF ArgDistance < 30 THEN 80
               ELSE IF 90 < ArgDistance /\ ArgDistance < 150 THEN 70
               ELSE 50)

C18_Witness ==
    /\ PairScored
    /\ arg_color1 = "green"
    /\ arg_color2 = "purple"
    /\ ArgDistance = 150
    /\ pair_score.value = 50

\* The wheel colors whose hue satisfies the relation C19 states for a harmony
\* type, hues compared by their distance on the 360-degree wheel
ExpectedMatches(base_color, type) ==
    {color_name \in DOMAIN color_wheel :
        CASE type = "complementary" ->
                 CircularDistance(Hue(color_name), (Hue(base_color) + 180) % 360) < 30
          [] type = "analogous" ->
                 /\ CircularDistance(Hue(color_name), Hue(base_color)) < 60
                 /\ color_name # base_color
          [] type = "triadic" ->
                 \/ CircularDistance(Hue(color_name), (Hue(base_color) + 120) % 360) < 30
                 \/ CircularDistance(Hue(color_name), (Hue(base_color) + 240) % 360) < 30
          [] type = "monochromatic" ->
                 CircularDistance(Hue(color_name), Hue(base_color)) < 15}

\* C19: for every base color of the wheel and each of the four harmony types,
\* find_matching_colors returns exactly the wheel colors whose hue, compared on
\* the 360-degree wheel, satisfies the relation of the type (complementary:
\* within 30 degrees of base+180; analogous: within 60 degrees of base, the
\* base color excluded; triadic: within 30 degrees of base+120 or base+240;
\* monochromatic: within 15 degrees of base); for a base color that is not in
\* the wheel the result is empty.
C19_MatchesOnTheWheel ==
    pc = "match_done" =>
        /\ arg_color1 \notin DOMAIN color_wheel => matched_colors = <<>>
        /\ arg_color1 \in DOMAIN color_wheel /\ arg_harmony_type \in color_harmony_rules
              => Members(matched_colors) = ExpectedMatches(arg_color1, arg_harmony_type)

\* The fetched collection is a single item whose category is in none of the
\* four category lists (or is missing), and at least one outfit is requested
SingleUnrecognizedItem ==
    /\ Len(user_clothes) = 1
    /\ \/ user_clothes[1].category = NoneValue
       \/ Lower(user_clothes[1].category) \notin
              UNION {essential_categories[slot] : slot \in DOMAIN essential_categories}
    /\ num_recommendations >= 1

\* C14: a request on a single item of unrecognized or missing category, with
\* N >= 1, for every mood, occasion and weather: the item is put in the
\* accessories slot, and the request returns one candidate, tagged rule_based,
\* that consists of exactly that item, without invoking the emergency fallback.
C14_SingleUnrecognizedItem ==
    SingleUnrecognizedItem =>
        /\ CategorizeItems(user_clothes)["accessories"] = user_clothes
        /\ pc = "done" =>
              /\ path = "ranked"
              /\ emergency_calls = 0
              /\ Len(result) = 1
              /\ result[1].recommendation_method = "rule_based"
              /\ Len(result[1].items) = 1
              /\ result[1].items[1].item_id = user_clothes[1].item_id

\* The slots of categorized_items
Slots == {"tops", "bottoms", "outerwear", "footwear", "accessories"}

\* C15 as stated: whenever at least one of the five slots of the filtered
\* input is non-empty, _build_complete_outfit returns at least one item.
C15_EmptyOnlyIfAllSlotsEmpty ==
    pc = "outfit_done" =>
        ((\E slot \in Slots : categorized[slot] # <<>>) => built_outfit # <<>>)

\* C15 (amended): _build_complete_outfit returns an empty outfit exactly when
\* the tops, bottoms, footwear and accessories slots are empty and either the
\* outerwear slot is empty too or the occasion is none of work, formal, date.
C15_EmptyOnlyIfNothingUsable ==
    pc = "outfit_done" =>
        (built_outfit = <<>> <=>
            /\ \A slot \in Slots \ {"outerwear"} : categorized[slot] = <<>>
            /\ \/ categorized["outerwear"] = <<>>
               \/ occasion \notin {"work", "formal", "date"})

C15_Witness ==
    /\ pc = "outfit_done"
    /\ occasion = "party"
    /\ Len(user_clothes) = 2
    /\ Len(categorized["outerwear"]) = 1
    /\ built_outfit = <<>>

\* The item ids of a list of items or of item dicts, in order
ItemIds(list) == [i \in 1..Len(list) |-> list[i].item_id]

\* C16 as stated: when the assembler returns an empty outfit, the candidate of
\* the attempt is built from the first up-to-3 items of the unfiltered item
\* list of the attempt.
C16_FallbackFromUnfiltered ==
    (pc = "outfit_done" /\ user_clothes # <<>> /\ built_outfit = <<>>) =>
        /\ Len(recommendations) = 1
        /\ ItemIds(recommendations[1].items)
              = ItemIds(Take(user_clothes, Min(3, Len(user_clothes))))

\* C16 (amended): when the assembler returns an empty outfit, the candidate of
\* the attempt is built from the first up-to-3 items of the filtered item list
\* of the attempt (the list the occasion, mood and weather filters and their
\* fallbacks left, in that list's order).
C16_FallbackFromFiltered ==
    (pc = "outfit_done" /\ user_clothes # <<>> /\ built_outfit = <<>>) =>
        /\ ~weather_filtered.raised
        /\ Len(recommendations) = 1
        /\ ItemIds(recommendations[1].items)
              = ItemIds(Take(weather_filtered.value,
                             Min(3, Len(weather_filtered.value))))

C16_Witness ==
    /\ pc = "outfit_done"
    /\ built_outfit = <<>>
    /\ occasion = "casual"
    /\ ItemIds(user_clothes) = <<18, 19, 20, 14>>
    /\ ItemIds(weather_filtered.value) = <<14, 18, 19, 20>>
    /\ ItemIds(recommendations[1].items) = <<14, 18, 19>>

\* The avoid set and the prefer set of a weather condition, whatever the key
\* that holds them in weather_adjustments
AvoidSet(condition) ==
    weather_adjustments[condition].avoid_categories \cup weather_adjustments[condition].avoid

PreferSet(condition) ==
    weather_adjustments[condition].prefer_categories \cup weather_adjustments[condition].prefer

\* What C17 states of the result for the input items under a condition among
\* hot, cold, rainy
WeatherResultAsStated(items, filtered, condition) ==
    LET Dropped(item) == \/ Lower(item.category) \in AvoidSet(condition)
                         \/ Lower(item.color) \in AvoidSet(condition)
        Kept(item) == ~Dropped(item)
        Preferred(item) == Lower(item.category) \in PreferSet(condition)
        Other(item) == ~Preferred(item)
        kept == SelectSeq(items, Kept)
    IN  IF kept = <<>>
        THEN filtered = items
        ELSE /\ Len(filtered) = Len(kept)
             /\ {filtered[i] : i \in 1..Len(filtered)} = {kept[i] : i \in 1..Len(kept)}
             /\ \A i, j \in 1..Len(filtered) :
                   (Preferred(filtered[i]) /\ Other(filtered[j])) => i < j
             /\ SelectSeq(filtered, Other) = SelectSeq(kept, Other)

\* C17: for the condition hot, cold or rainy, _filter_by_weather drops every
\* item whose category or color is in the condition's avoid set and places the
\* kept items of a preferred category before all other kept items, which keep
\* their input order (the input is returned when nothing would be kept); for
\* mild or an unknown condition the input is returned unchanged.
C17_WeatherFilter ==
    (pc = "weather_done" /\ ~weather_filtered.raised) =>
        IF WeatherCondition(weather).value \in {"hot", "cold", "rainy"}
        THEN WeatherResultAsStated(user_clothes, weather_filtered.value,
                                   WeatherCondition(weather).value)
        ELSE weather_filtered.value = user_clothes

\* The first item of a slot's list if the list has one and the condition
\* holds, as a list of length 0 or 1
FirstIf(slot_items, condition) ==
    IF slot_items # <<>> /\ condition THEN <<slot_items[1]>> ELSE <<>>

\* The slots filled as C20 states them, each from the outfit filled so far
TopOf(c) == FirstIf(c["tops"], TRUE)

WithBottom(c, outfit) ==
    outfit \o FirstIf(c["bottoms"],
                      \A i \in 1..Len(outfit) : outfit[i].category # "dress")

WithOuterwear(c, outfit, occ) ==
    outfit \o FirstIf(c["outerwear"], occ \in {"work", "formal", "date"})

WithFootwear(c, outfit) == outfit \o FirstIf(c["footwear"], TRUE)

WithAccessory(c, outfit) == outfit \o FirstIf(c["accessories"], Len(outfit) < 4)

OutfitAsStated(c, occ) ==
    WithAccessory(c, WithFootwear(c, WithOuterwear(c, WithBottom(c, TopOf(c)), occ)))

\* C20: the outfit of _build_complete_outfit is, in this order, the first top
\* if any, the first bottom if any unless the outfit already holds a dress, the
\* first outerwear item if the occasion is work, formal or date, the first
\* footwear item if any, and the first accessory if the outfit then has fewer
\* than 4 items; it depends on the categorized lists and the occasion only.
C20_SlotsFilledInOrder ==
    pc = "outfit_done" =>
        /\ built_outfit = OutfitAsStated(categorized, occasion)
        /\ \A md \in DOMAIN mood_style_mapping \cup {"sleepy"} :
              BuildCompleteOutfit(categorized, md, occasion) = built_outfit

C20_Witness ==
    /\ pc = "outfit_done"
    /\ occasion = "work"
    /\ ItemIds(user_clothes) = <<16, 13, 14, 12, 11>>
    /\ ItemIds(categorized["accessories"]) = <<16>>
    /\ ItemIds(built_outfit) = <<11, 12, 14, 13>>

\* The formality_level of an item as C21 and C22 state it: the level of the
\* metadata, and 2 for an item without usable formality metadata
FormalityAsStated(item) ==
    IF item.metadata.kind = "level" THEN item.metadata.level ELSE 2

\* The item meets the criterion of a known occasion as C21 states it
MeetsOccasion(item, occ) ==
    \/ FormalityAsStated(item) >= occasion_requirements[occ].formality_min
    \/ Lower(item.color) \in occasion_requirements[occ].colors

\* The formality_level of the item is present and is no number
FormalityNotANumber(item) == item.metadata.kind = "bad"

\* C21 as stated: for a known occasion, _filter_by_occasion keeps exactly the
\* items whose formality_level is at least formality_min or whose lower-cased
\* color is in the accepted colors (formality 2 without usable metadata), in
\* input order; for an unknown occasion it returns the input unchanged.
C21_OccasionKeepsExactly ==
    pc = "occasion_done" =>
        occasion_filtered =
            (IF occasion \in DOMAIN occasion_requirements
             THEN LET Meets(item) == MeetsOccasion(item, occasion)
                  IN  SelectSeq(user_clothes, Meets)
             ELSE user_clothes)

\* C21 (amended): for a known occasion, _filter_by_occasion keeps, in input
\* order, exactly the items whose formality_level is at least formality_min, or
\* whose lower-cased color is in the accepted colors, or whose formality_level
\* is present but no number (an item without metadata dict or without the key
\* counting as formality 2); when no item is kept this way, and for an unknown
\* occasion, it returns the input unchanged.
C21_OccasionKeepsOrFallsBack ==
    pc = "occasion_done" =>
        occasion_filtered =
            (IF occasion \in DOMAIN occasion_requirements
             THEN LET Kept(item) == \/ MeetsOccasion(item, occasion)
                                    \/ FormalityNotANumber(item)
                  IN  IF SelectSeq(user_clothes, Kept) = <<>>
                      THEN user_clothes
                      ELSE SelectSeq(user_clothes, Kept)
             ELSE user_clothes)

C21_Witness ==
    /\ pc = "occasion_done"
    /\ occasion = "formal"
    /\ ItemIds(user_clothes) = <<3, 6, 8>>
    /\ ItemIds(occasion_filtered) = <<6, 8>>

\* The item meets the criterion of a known mood as C22 states it
MeetsMood(item, md) ==
    \/ Lower(item.color) \in mood_style_mapping[md].colors
    \/ Abs(FormalityAsStated(item) - mood_style_mapping[md].formality) <= 1

\* The occasion stage matched no item of the list of the attempt
OccasionMatchedNothing ==
    /\ occasion \in DOMAIN occasion_requirements
    /\ \A i \in 1..Len(user_clothes) :
          /\ ~MeetsOccasion(user_clothes[i], occasion)
          /\ ~FormalityNotANumber(user_clothes[i])

\* C22 as stated: for a known mood, _filter_by_mood keeps exactly the items
\* whose lower-cased color is in the mood's colors or whose formality_level is
\* within 1 of the mood's formality (formality 2 without usable metadata), in
\* input order; its input is the output of the occasion stage, which is the
\* full item list when the occasion stage matched nothing.
C22_MoodKeepsExactly ==
    pc = "outfit_done" =>
        /\ OccasionMatchedNothing => occasion_filtered = user_clothes
        /\ mood \in DOMAIN mood_style_mapping =>
              LET Meets(item) == MeetsMood(item, mood)
              IN  mood_filtered = SelectSeq(occasion_filtered, Meets)

\* C22 (amended): for a known mood, _filter_by_mood keeps, in input order,
\* exactly the items whose lower-cased color is in the mood's colors, or whose
\* formality_level is within 1 of the mood's formality, or whose
\* formality_level is present but no number (an item without metadata dict or
\* without the key counting as formality 2), and returns its input unchanged
\* when no item is kept this way; its input is the output of the occasion stage,
\* which is the full item list when the occasion stage matched nothing.
C22_MoodKeepsOrFallsBack ==
    pc = "outfit_done" =>
        /\ OccasionMatchedNothing => occasion_filtered = user_clothes
        /\ mood \in DOMAIN mood_style_mapping =>
              LET Kept(item) == MeetsMood(item, mood) \/ FormalityNotANumber(item)
              IN  mood_filtered =
                      (IF SelectSeq(occasion_filtered, Kept) = <<>>
                       THEN occasion_filtered
                       ELSE SelectSeq(occasion_filtered, Kept))

C22_Witness ==
    /\ pc = "outfit_done"
    /\ mood = "professional"
    /\ occasion = "party"
    /\ ItemIds(user_clothes) = <<15, 18>>
    /\ OccasionMatchedNothing
    /\ ItemIds(occasion_filtered) = <<15, 18>>
    /\ ItemIds(mood_filtered) = <<18>>


\* The final score of C23, in hundredths
FinalScoreAsStated(rec) ==
    LET preferred == IF user_preferences.kind = "colors"
                     THEN user_preferences.preferred_colors
                     ELSE {}
        color_bonus == IF \E i \in 1..Len(rec.items) :
                              Lower(rec.items[i].color) \in preferred
                       THEN 10 ELSE 0
        method_bonus == IF rec.recommendation_method = "ai_enhanced" THEN 5 ELSE 0
        total == rec.confidence_score + color_bonus + method_bonus
    IN  IF total > 100 THEN 100 ELSE total

\* C23: the final score of a scored candidate is its confidence_score, plus 0.1
\* if the lower-cased color of one of its items is a preferred color, plus 0.05
\* if its method is ai_enhanced, capped at 1.0; with empty preferences or
\* preferences without preferred_colors scoring adds no color bonus and raises
\* nothing.
C23_FinalScoreFormula ==
    /\ \A i \in 1..Len(scored_recommendations) :
          scored_recommendations[i].final_score
              = FinalScoreAsStated(scored_recommendations[i])
    /\ pc \in {"truncate", "done"} /\ path # "fault" =>
          Len(scored_recommendations) = Len(unique_recommendations)
    /\ user_preferences.kind = "absent" => pc # "except" /\ path # "fault"

C23_Witness ==
    /\ pc = "truncate"
    /\ user_preferences.kind = "colors"
    /\ \E i, j \in 1..Len(scored_recommendations) :
          /\ scored_recommendations[i].recommendation_method = "ai_enhanced"
          /\ scored_recommendations[i].final_score = 100
          /\ scored_recommendations[j].recommendation_method = "rule_based"
          /\ scored_recommendations[j].final_score
                = scored_recommendations[j].confidence_score + 10

\* Scoring without preferred_colors: the method bonus alone
C23_WitnessNoPreferences ==
    /\ pc = "truncate"
    /\ user_preferences.kind = "absent"
    /\ \E i \in 1..Len(scored_recommendations) :
          /\ scored_recommendations[i].recommendation_method = "ai_enhanced"
          /\ scored_recommendations[i].final_score
                = scored_recommendations[i].confidence_score + 5


\* C25: every candidate of a returned list has been scored and carries a
\* final_score, on every path that returns candidates, the path after an
\* internal fault included.
C25_ReturnedCandidatesScored ==
    pc = "done" =>
        \A i \in 1..Len(result) : result[i].final_score \in 0..100


\* C27: for a non-empty collection of well-formed items and N >= 1 every
\* attempt produces a candidate: the loop makes exactly N attempts, yields
\* exactly N candidates before deduplication, and the emergency fallback is
\* never invoked.
C27_ExactlyNAttempts ==
    user_clothes # <<>> /\ num_recommendations >= 1 =>
        /\ emergency_calls = 0
        /\ attempt <= num_recommendations
        /\ Len(recommendations) = attempt
        /\ pc \in {"merge", "dedup", "score", "truncate", "except", "done"} =>
              /\ attempt = num_recommendations
              /\ Len(recommendations) = num_recommendations

\* The same, for a weather context whose condition is a string or absent and
\* preferences that scoring accepts
C27_HoldsInWellFormedContext ==
    weather.kind # "malformed" /\ user_preferences.kind # "malformed" =>
        C27_ExactlyNAttempts


\* The positions of the outfit that hold an item of the slot
PositionsOfSlot(outfit, c, slot) ==
    {i \in 1..Len(outfit) : outfit[i] \in Range(c[slot])}

\* C28: an outfit of _build_complete_outfit holds at most one item of each
\* slot, its items are pairwise distinct items of the input, and it has at most
\* 4 items: no accessory when top, bottom, outerwear and footwear are filled.
C28_AtMostOnePerSlot ==
    pc = "outfit_done" =>
        /\ \A slot \in Slots :
              Cardinality(PositionsOfSlot(built_outfit, categorized, slot)) <= 1
        /\ \A i, j \in 1..Len(built_outfit) :
              i # j => built_outfit[i] # built_outfit[j]
        /\ \A i \in 1..Len(built_outfit) :
              /\ built_outfit[i] \in Range(weather_filtered.value)
              /\ \E slot \in Slots : built_outfit[i] \in Range(categorized[slot])
        /\ Len(built_outfit) <= 4
        /\ (\A slot \in Slots \ {"accessories"} :
               PositionsOfSlot(built_outfit, categorized, slot) # {})
              => PositionsOfSlot(built_outfit, categorized, "accessories") = {}

C28_Witness ==
    /\ pc = "outfit_done"
    /\ occasion = "work"
    /\ Len(categorized["outerwear"]) >= 2
    /\ Cardinality(PositionsOfSlot(built_outfit, categorized, "outerwear")) = 1

\* All five slots offered, four taken
C28_WitnessFull ==
    /\ pc = "outfit_done"
    /\ \A slot \in Slots : categorized[slot] # <<>>
    /\ Len(built_outfit) = 4
    /\ PositionsOfSlot(built_outfit, categorized, "accessories") = {}


\* Two rule-based candidates over the same items
Duplicates(rec1, rec2) ==
    /\ rec1.recommendation_method = "rule_based"
    /\ rec2.recommendation_method = "rule_based"
    /\ ItemIdSet(rec1) = ItemIdSet(rec2)

\* The last candidate of recs that duplicates rec, rec itself if there is none
LastDuplicate(recs, rec) ==
    LET later == {i \in 1..Len(recs) : Duplicates(recs[i], rec)}
    IN  IF later = {}
        THEN rec
        ELSE recs[CHOOSE i \in later : \A j \in later : j <= i]

\* The deduplicated list with every kept candidate replaced by its last duplicate
KeepingLastDuplicates(recs, unique_recs) ==
    [k \in 1..Len(unique_recs) |-> LastDuplicate(recs, unique_recs[k])]

\* What the ranking shows of a list: the items and the score of every place
Ranking(recs) ==
    [k \in 1..Len(recs) |-> [item_ids |-> ItemIdSet(recs[k]),
                              confidence_score |-> recs[k].confidence_score,
                              final_score |-> recs[k].final_score]]

\* C29: two rule-based candidates of one request with the same item-id
\* signature have equal confidence_score and are given equal final_score, so
\* the ranked list has the same items and scores in every place when
\* deduplication keeps another duplicate than the first.
C29_DuplicatesScoreAlike ==
    /\ pc = "truncate" =>
          Ranking(scored_recommendations)
              = Ranking(ScoreRecommendations(
                            KeepingLastDuplicates(recommendations, unique_recommendations),
                            user_preferences, mood, occasion).value)
    /\ \A i, j \in 1..Len(recommendations) :
          Duplicates(recommendations[i], recommendations[j]) =>
              /\ recommendations[i].confidence_score = recommendations[j].confidence_score
              /\ FinalScore(recommendations[i], user_preferences)
                    = FinalScore(recommendations[j], user_preferences)
    /\ \A k \in 1..Len(scored_recommendations), i \in 1..Len(recommendations) :
          Duplicates(scored_recommendations[k], recommendations[i]) =>
              /\ scored_recommendations[k].confidence_score
                    = recommendations[i].confidence_score
              /\ scored_recommendations[k].final_score
                    = FinalScore(recommendations[i], user_preferences)

C29_Witness ==
    /\ pc = "truncate"
    /\ \E i, j \in 1..Len(recommendations), k \in 1..Len(scored_recommendations) :
          /\ i < j
          /\ Duplicates(recommendations[i], recommendations[j])
          /\ recommendations[i].items # recommendations[j].items
          /\ scored_recommendations[k] =
                [recommendations[i] EXCEPT !.final_score = scored_recommendations[k].final_score]
          /\ scored_recommendations[k].final_score >= 0


\* How often the item occurs in the list
Occurrences(list, item) == Cardinality({i \in 1..Len(list) : list[i] = item})

\* The output holds only items of the input, each at most as often
WithinInput(output, input) ==
    \A item \in Range(output) : Occurrences(output, item) <= Occurrences(input, item)

\* C30: no stage modifies the list it is given. From the fetch on user_clothes
\* holds the fetched items in the fetched order through every attempt, so the
\* emergency fallback is built from the fetched order; the output of each of
\* the three filters holds only items of its input, each at most as often as
\* the input.
C30_StagesLeaveInputsAlone ==
    /\ pc \in {"fetch_preferences", "assemble", "merge", "dedup", "score",
               "truncate", "except"} => user_clothes = db_items
    /\ pc = "done" /\ path \in {"ranked", "fault"} => user_clothes = db_items
    /\ pc \in {"dedup", "score", "truncate"} /\ emergency_calls = 1 =>
          ItemIds(recommendations[1].items) = Take(ItemIds(db_items), 3)
    /\ pc = "occasion_done" => WithinInput(occasion_filtered, user_clothes)
    /\ pc = "mood_done" => WithinInput(mood_filtered, user_clothes)
    /\ pc = "weather_done" => WithinInput(weather_filtered.value, user_clothes)

C30_Witness ==
    /\ pc = "dedup"
    /\ attempt = 4
    /\ emergency_calls = 1
    /\ Len(user_clothes) = 3
    /\ user_clothes = db_items

\* A filter that dropped an item and kept the others in place
C30_WitnessFilter ==
    /\ pc = "mood_done"
    /\ Len(user_clothes) = 3
    /\ mood_filtered = <<user_clothes[1], user_clothes[3]>>


\* The attempts made so far that raised nothing, in order
RECURSIVE AttemptsWithoutFault(_)
AttemptsWithoutFault(n) ==
    IF n = 0
    THEN <<>>
    ELSE IF n \in attempt_faults
         THEN AttemptsWithoutFault(n - 1)
         ELSE Append(AttemptsWithoutFault(n - 1), n)

\* C24: a fault raised while one candidate is constructed discards that
\* attempt only: the attempt yields no candidate, the loop goes on with the
\* next attempt, and the candidates of the earlier attempts stay in the list the
\* loop returns.
C24_FaultDiscardsOneAttempt ==
    pc \in {"assemble", "merge"} =>
        /\ [i \in 1..Len(recommendations) |-> recommendations[i].attempt_number]
              = AttemptsWithoutFault(attempt)
        /\ pc = "merge" =>
              \/ Len(recommendations) = num_recommendations
              \/ attempt = 2 * num_recommendations

\* A candidate, a fault, and another candidate
C24_Witness ==
    /\ pc = "merge"
    /\ num_recommendations = 2
    /\ attempt_faults = {2}
    /\ attempt = 3
    /\ Len(recommendations) = 2
    /\ recommendations[1].attempt_number = 1
    /\ recommendations[2].attempt_number = 3

\* The candidate collected before the faults is the one returned
C24_WitnessReturned ==
    /\ pc = "done"
    /\ num_recommendations = 2
    /\ attempt_faults = {2, 3, 4}
    /\ Len(result) = 1
    /\ result[1].attempt_number = 1

\* C26: no two candidates created by different attempts of one request carry
\* the same outfit_id, attempts made within the same clock second included.
C26_OutfitIdsUnique ==
    \A i, j \in 1..Len(outfit_ids) : i # j => outfit_ids[i] # outfit_ids[j]

=============================================================================
